---- MODULE Spec2Model ----
(***************************************************************************)
(* Directory Tree Creator (src/directory-tree-creator.py): the two tree    *)
(* text parsers, the format detector, the item counter and the recursive   *)
(* structure materializer, as a state machine.                             *)
(*                                                                         *)
(* Text is a sequence of one-character strings.  The box-drawing glyphs of *)
(* the ASCII format are written with stand-ins, one character each:        *)
(*     BoxV "|" for U+2502,  BoxT "+" for U+251C,                          *)
(*     BoxL "!" for U+2514,  BoxH "-" for U+2500.                          *)
(* None of the stand-ins occurs in a name of the inputs.                   *)
(*                                                                         *)
(* A nested dict is a sequence of entries [path, dir] in insertion order:  *)
(* path is the sequence of keys from the outermost dict, dir is TRUE for a *)
(* value {} and FALSE for a value None.  The children of a dict are the    *)
(* entries one key longer than it, in sequence order (dict order).         *)
(***************************************************************************)
EXTENDS Naturals, Integers, Sequences, FiniteSets, TLC

VARIABLES tree_text,     \* create_structure local: the text to parse
          pc,            \* position of the pipeline
          format,        \* format label returned by detect_format_and_parse
          lines,         \* parser local: tree_text.strip().split('\n')
          i,             \* parser local: index of the next line (1-based)
          root,          \* parse_indented_tree local: the nested dict
          structure,     \* parse_ascii_tree local: {root_name: {...}}
          root_name,     \* parse_ascii_tree local
          path_stack,    \* parser local
          indent_stack,  \* parse_indented_tree local
          result,        \* the tree a parser returned, or NoTree
          error,         \* the payload of the exception raised, or NoError
          fs,            \* the filesystem: [dirs, files, nonempty]
          frames,        \* call stack of create_directory_structure
          created,       \* history: the entries whose creation succeeded
          progress,      \* history: the update_callback invocations
          run,           \* number of the top-level materializer call (1, 2)
          fs0,           \* history: the filesystem when the call started
          snap           \* history: the filesystem after the first call

vars == <<tree_text, pc, format, lines, i, root, structure, root_name,
          path_stack, indent_stack, result, error, fs, frames, created,
          progress, run, fs0, snap>>

parserVars == <<lines, i, root, structure, root_name, path_stack, indent_stack>>
createVars == <<fs, frames, created, progress, run, fs0, snap>>

----------------------------------------------------------------------------
(* Bounds of the inputs *)

MaxLines == 3    \* lines of an input text
MaxIndent == 2   \* leading spaces of an indented line

----------------------------------------------------------------------------
(* Characters and str methods *)

BoxV == "|"
BoxT == "+"
BoxL == "!"
BoxH == "-"
NL == "\n"

Whitespace == {" ", NL, "\t"}

RECURSIVE LStrip(_)
LStrip(s) == IF s = <<>> THEN s
             ELSE IF Head(s) \in Whitespace THEN LStrip(Tail(s)) ELSE s

RECURSIVE RStrip(_)
RStrip(s) == IF s = <<>> THEN s
             ELSE IF s[Len(s)] \in Whitespace
                  THEN RStrip(SubSeq(s, 1, Len(s) - 1)) ELSE s

Strip(s) == RStrip(LStrip(s))

StartsWith(s, c) == s # <<>> /\ s[1] = c
EndsWith(s, c) == s # <<>> /\ s[Len(s)] = c
Contains(s, c) == \E k \in 1..Len(s) : s[k] = c
DropLast(s) == SubSeq(s, 1, Len(s) - 1)

\* index of the first c in s, 0 when there is none
FirstIndex(s, c) ==
    IF Contains(s, c) THEN CHOOSE k \in 1..Len(s) : s[k] = c /\ \A j \in 1..(k-1) : s[j] # c
    ELSE 0

\* s.split(c): always at least one piece
RECURSIVE Split(_, _)
Split(s, c) ==
    LET k == FirstIndex(s, c) IN
    IF k = 0 THEN <<s>>
    ELSE <<SubSeq(s, 1, k - 1)>> \o Split(SubSeq(s, k + 1, Len(s)), c)

\* c.join(ss)
RECURSIVE Join(_, _)
Join(ss, c) ==
    IF ss = <<>> THEN <<>>
    ELSE IF Len(ss) = 1 THEN ss[1]
    ELSE ss[1] \o <<c>> \o Join(Tail(ss), c)

----------------------------------------------------------------------------
(* Nested dicts *)

IsPrefix(p, q) == Len(p) <= Len(q) /\ SubSeq(q, 1, Len(p)) = p
IsStrictPrefix(p, q) == Len(p) < Len(q) /\ IsPrefix(p, q)

HasKey(t, p) == \E k \in 1..Len(t) : t[k].path = p
IsDirAt(t, p) == \E k \in 1..Len(t) : t[k].path = p /\ t[k].dir
IsFileAt(t, p) == \E k \in 1..Len(t) : t[k].path = p /\ ~t[k].dir

\* current[name] = {} if is_dir else None, where current is the dict at
\* parent: a new key goes last, an existing key keeps its place and its
\* old value (with everything below it) is dropped.
SetItem(t, parent, name, is_dir) ==
    LET p == Append(parent, name)
        e == [path |-> p, dir |-> is_dir]
        Keep(x) == ~IsStrictPrefix(p, x.path)
        put == [k \in 1..Len(t) |-> IF t[k].path = p THEN e ELSE t[k]]
    IN IF HasKey(t, p) THEN SelectSeq(put, Keep) ELSE Append(t, e)

\* the dict stored at key path p, as a tree of its own
SubDict(t, p) ==
    LET Below(x) == IsStrictPrefix(p, x.path)
        sel == SelectSeq(t, Below)
    IN [k \in 1..Len(sel) |->
           [path |-> SubSeq(sel[k].path, Len(p) + 1, Len(sel[k].path)),
            dir |-> sel[k].dir]]

\* structure.items(): the keys of the dict at p, in dict order
Items(t, p) ==
    LET Child(x) == Len(x.path) = Len(p) + 1 /\ IsPrefix(p, x.path)
        sel == SelectSeq(t, Child)
    IN [k \in 1..Len(sel) |-> sel[k].path[Len(p) + 1]]

NoTree == "NoTree"
NoError == [type |-> "none"]

----------------------------------------------------------------------------
(* parse_indented_tree *)

\* indent = len(line) - len(line.lstrip())
LineIndent(line) == Len(line) - Len(LStrip(line))

\* is_dir = line.endswith('/'), on the stripped line
LineIsDir(line) == EndsWith(Strip(line), "/")

\* name = line[:-1] if is_dir else line, on the stripped line
LineName(line) == IF LineIsDir(line) THEN DropLast(Strip(line)) ELSE Strip(line)

\* InvalidName without the test for a backslash
InvalidNameSlashOnly(name) ==
    \/ name = <<>>
    \/ Contains(name, "/") /\ ~StartsWith(name, "#")

\* the condition under which parse_indented_tree raises ValueError
InvalidName(name) ==
    \/ name = <<>>
    \/ Contains(name, "/") /\ ~StartsWith(name, "#")
    \/ Contains(name, "\\") /\ ~StartsWith(name, "#")

\* PopIndent with the comparison indent < indent_stack[-1]
RECURSIVE PopIndentStrict(_, _, _)
PopIndentStrict(indent, istack, pstack) ==
    IF istack = <<>> THEN [ok |-> FALSE, indent_stack |-> istack, path_stack |-> pstack]
    ELSE IF indent < istack[Len(istack)]
         THEN IF pstack = <<>>
              THEN [ok |-> FALSE, indent_stack |-> DropLast(istack), path_stack |-> pstack]
              ELSE PopIndentStrict(indent, DropLast(istack), DropLast(pstack))
         ELSE [ok |-> TRUE, indent_stack |-> istack, path_stack |-> pstack]

\* PopIndent with an if in place of the while: one pop at most
PopIndentOnce(indent, istack, pstack) ==
    IF istack = <<>> THEN [ok |-> FALSE, indent_stack |-> istack, path_stack |-> pstack]
    ELSE IF indent <= istack[Len(istack)]
         THEN IF pstack = <<>>
              THEN [ok |-> FALSE, indent_stack |-> DropLast(istack), path_stack |-> pstack]
              ELSE [ok |-> TRUE, indent_stack |-> DropLast(istack),
                    path_stack |-> DropLast(pstack)]
         ELSE [ok |-> TRUE, indent_stack |-> istack, path_stack |-> pstack]

\* while indent <= indent_stack[-1]: indent_stack.pop(); path_stack.pop()
\* ok is FALSE when a stack is indexed or popped while empty (IndexError)
RECURSIVE PopIndent(_, _, _)
PopIndent(indent, istack, pstack) ==
    IF istack = <<>> THEN [ok |-> FALSE, indent_stack |-> istack, path_stack |-> pstack]
    ELSE IF indent <= istack[Len(istack)]
         THEN IF pstack = <<>>
              THEN [ok |-> FALSE, indent_stack |-> DropLast(istack), path_stack |-> pstack]
              ELSE PopIndent(indent, DropLast(istack), DropLast(pstack))
         ELSE [ok |-> TRUE, indent_stack |-> istack, path_stack |-> pstack]

\* for p in path_stack: if p not in current: current[p] = {}; current = current[p]
\* from the dict at the first k keys of pstack.  ok is FALSE when current
\* becomes None (a file), on which the next use raises TypeError; made is
\* TRUE when a missing key was created.
RECURSIVE NavigateIndented(_, _, _)
NavigateIndented(t, pstack, k) ==
    IF k = Len(pstack) THEN [ok |-> TRUE, tree |-> t, made |-> FALSE]
    ELSE LET parent == SubSeq(pstack, 1, k)
             p == SubSeq(pstack, 1, k + 1)
         IN IF ~HasKey(t, p)
            THEN LET r == NavigateIndented(SetItem(t, parent, pstack[k + 1], TRUE), pstack, k + 1)
                 IN [r EXCEPT !.made = TRUE]
            ELSE IF IsFileAt(t, p) THEN [ok |-> FALSE, tree |-> t, made |-> FALSE]
            ELSE NavigateIndented(t, pstack, k + 1)

\* one iteration of the for loop over lines, on a non-blank line
IndentedLine(line, t, pstack, istack) ==
    LET indent == LineIndent(line)
        is_dir == LineIsDir(line)
        name == LineName(line)
        popped == PopIndent(indent, istack, pstack)
        nav == NavigateIndented(t, popped.path_stack, 0)
    IN IF InvalidName(name)
       THEN [status |-> "ValueError", name |-> name, root |-> t,
             path_stack |-> pstack, indent_stack |-> istack]
       ELSE IF ~popped.ok
       THEN [status |-> "IndexError", name |-> name, root |-> t,
             path_stack |-> popped.path_stack, indent_stack |-> popped.indent_stack]
       ELSE IF ~nav.ok
       THEN [status |-> "TypeError", name |-> name, root |-> nav.tree,
             path_stack |-> popped.path_stack, indent_stack |-> popped.indent_stack]
       ELSE [status |-> "ok", name |-> name,
             root |-> SetItem(nav.tree, popped.path_stack, name, is_dir),
             path_stack |-> IF is_dir THEN Append(popped.path_stack, name)
                            ELSE popped.path_stack,
             indent_stack |-> IF is_dir THEN Append(popped.indent_stack, indent)
                              ELSE popped.indent_stack]

----------------------------------------------------------------------------
(* parse_ascii_tree *)

Branch == {BoxV, BoxT, BoxL}

\* re.search(r'[VTL](?:HH|H)', line): the leftmost branch character that is
\* followed by a fill character; 0 when there is no match
MatchStart(line) ==
    LET Hit(k) == line[k] \in Branch /\ k + 1 <= Len(line) /\ line[k + 1] = BoxH
    IN IF \E k \in 1..Len(line) : Hit(k)
       THEN CHOOSE k \in 1..Len(line) : Hit(k) /\ \A j \in 1..(k - 1) : ~Hit(j)
       ELSE 0

\* match.end(): the number of characters up to the end of the match (two
\* fill characters are taken when there are two); 0 without a match, as
\* content_start is initialised
MatchEnd(line) ==
    LET k == MatchStart(line)
    IN IF k = 0 THEN 0
       ELSE IF k + 2 <= Len(line) /\ line[k + 2] = BoxH THEN k + 2 ELSE k + 1

\* depth = line[:match.end()].count(V) + .count(T) + .count(L), 0 without
\* a match
LineDepth(line) ==
    Cardinality({k \in 1..MatchEnd(line) : line[k] \in Branch})

\* content = line[content_start:].strip(), cut at the first '#'
LineContent(line) ==
    LET content == Strip(SubSeq(line, MatchEnd(line) + 1, Len(line)))
        h == FirstIndex(content, "#")
    IN IF h = 0 THEN content ELSE Strip(SubSeq(content, 1, h - 1))

AsciiIsDir(line) == EndsWith(LineContent(line), "/")

AsciiName(line) ==
    IF AsciiIsDir(line) THEN DropLast(LineContent(line)) ELSE LineContent(line)

\* while len(path_stack) > depth + 1: path_stack.pop()
TruncateStack(pstack, depth) ==
    IF Len(pstack) > depth + 1 THEN SubSeq(pstack, 1, depth + 1) ELSE pstack

\* current = structure; for p in path_stack: current = current[p]
\* "KeyError" for a missing key, "TypeError" when current is None
RECURSIVE NavigateAscii(_, _, _)
NavigateAscii(t, pstack, k) ==
    IF k = Len(pstack) THEN "ok"
    ELSE LET p == SubSeq(pstack, 1, k + 1)
         IN IF ~HasKey(t, p) THEN "KeyError"
            ELSE IF IsFileAt(t, p) THEN "TypeError"
            ELSE NavigateAscii(t, pstack, k + 1)

\* one iteration of the for loop over lines[1:], on a non-blank line
AsciiLine(line, t, pstack) ==
    LET depth == LineDepth(line)
        is_dir == AsciiIsDir(line)
        name == AsciiName(line)
        stack == TruncateStack(pstack, depth)
        nav == NavigateAscii(t, stack, 0)
    IN IF nav # "ok"
       THEN [status |-> nav, name |-> name, structure |-> t, path_stack |-> stack]
       ELSE [status |-> "ok", name |-> name,
             structure |-> SetItem(t, stack, name, is_dir),
             path_stack |-> IF is_dir THEN Append(stack, name) ELSE stack]

\* the first line names the root when it ends with '/'
RootLine(ls) == Strip(ls[1])
RootName(ls) ==
    IF EndsWith(RootLine(ls), "/") THEN DropLast(RootLine(ls)) ELSE <<"r", "o", "o", "t">>

\* lines.insert(0, root_name + "/") when the first line names no root
WithRoot(ls) ==
    IF EndsWith(RootLine(ls), "/") THEN ls ELSE <<RootName(ls) \o <<"/">>>> \o ls

\* any(char in tree_text for char in [T, L, V, H])
IsAsciiTree(text) == \E k \in 1..Len(text) : text[k] \in (Branch \cup {BoxH})

----------------------------------------------------------------------------
(* count_items *)

IsComment(name) == StartsWith(name, "#")

\* CountLoop without the test for a comment
RECURSIVE CountLoopAll(_, _, _, _)
CountLoopAll(t, p, k, count) ==
    IF k > Len(Items(t, p)) THEN count
    ELSE CountLoopAll(t, p, k + 1,
             count + 1 + (IF IsDirAt(t, Append(p, Items(t, p)[k]))
                          THEN CountLoopAll(t, Append(p, Items(t, p)[k]), 1, 0) ELSE 0))

\* count_items(structure), structure being the dict at key path p of t;
\* CountLoop is its for loop from the k-th item on, count so far
RECURSIVE CountItemsAt(_, _), CountLoop(_, _, _, _)
CountItemsAt(t, p) == CountLoop(t, p, 1, 0)
CountLoop(t, p, k, count) ==
    IF k > Len(Items(t, p)) THEN count
    ELSE LET name == Items(t, p)[k]
         IN IF IsComment(name) THEN CountLoop(t, p, k + 1, count)
            ELSE CountLoop(t, p, k + 1,
                     count + 1 + (IF IsDirAt(t, Append(p, name))
                                  THEN CountItemsAt(t, Append(p, name)) ELSE 0))

count_items(t) == CountItemsAt(t, <<>>)

----------------------------------------------------------------------------
(* The filesystem.  A path string is resolved from the root directory one
   component at a time; an object is the sequence of names leading to it. *)

\* os.path.join(a, b) on POSIX
PathJoin(a, b) ==
    IF StartsWith(b, "/") THEN b
    ELSE IF a = <<>> \/ EndsWith(a, "/") THEN a \o b
    ELSE a \o <<"/">> \o b

Components(path) == Split(path, "/")

\* os.path.dirname(path), as components
DirnameComponents(path) == DropLast(Components(path))

Dot == <<".">>
DotDot == <<".", ".">>

Parent(obj) == IF obj = <<>> THEN obj ELSE DropLast(obj)

\* the object a path names, followed from cur, without regard to existence
RECURSIVE Resolve(_, _)
Resolve(cur, comps) ==
    IF comps = <<>> THEN cur
    ELSE LET c == Head(comps)
         IN IF c = <<>> \/ c = Dot THEN Resolve(cur, Tail(comps))
            ELSE IF c = DotDot THEN Resolve(Parent(cur), Tail(comps))
            ELSE Resolve(Append(cur, c), Tail(comps))

Target(path) == Resolve(<<>>, Components(path))

\* os.makedirs(path, exist_ok=True): every missing directory on the way is
\* made; a file on the way, or at the end, is an error.  The directories
\* made before an error stay.
RECURSIVE MakeDirsFrom(_, _, _)
MakeDirsFrom(f, cur, comps) ==
    IF comps = <<>> THEN [ok |-> TRUE, fs |-> f]
    ELSE LET c == Head(comps)
         IN IF c = <<>> \/ c = Dot THEN MakeDirsFrom(f, cur, Tail(comps))
            ELSE IF c = DotDot THEN MakeDirsFrom(f, Parent(cur), Tail(comps))
            ELSE IF Append(cur, c) \in f.files THEN [ok |-> FALSE, fs |-> f]
            ELSE MakeDirsFrom([f EXCEPT !.dirs = @ \cup {Append(cur, c)}],
                              Append(cur, c), Tail(comps))

MakeDirs(f, comps) == MakeDirsFrom(f, <<>>, comps)

\* the directory a path of directories names, or "missing"
RECURSIVE ResolveDir(_, _, _)
ResolveDir(f, cur, comps) ==
    IF comps = <<>> THEN [ok |-> TRUE, dir |-> cur]
    ELSE LET c == Head(comps)
         IN IF c = <<>> \/ c = Dot THEN ResolveDir(f, cur, Tail(comps))
            ELSE IF c = DotDot THEN ResolveDir(f, Parent(cur), Tail(comps))
            ELSE IF Append(cur, c) \in f.dirs
                 THEN ResolveDir(f, Append(cur, c), Tail(comps))
            ELSE [ok |-> FALSE, dir |-> cur]

\* open(path, 'w').close(): the file is created empty or truncated; the
\* path of a directory, or one through a missing directory, is an error
OpenWrite(f, comps) ==
    LET d == ResolveDir(f, <<>>, DropLast(comps))
        last == comps[Len(comps)]
        obj == Append(d.dir, last)
    IN IF ~d.ok \/ last = <<>> \/ last = Dot \/ last = DotDot \/ obj \in f.dirs
       THEN [ok |-> FALSE, fs |-> f]
       ELSE [ok |-> TRUE,
             fs |-> [f EXCEPT !.files = @ \cup {obj}, !.nonempty = @ \ {obj}]]

\* lines 200-203: os.makedirs(os.path.dirname(path), exist_ok=True);
\* open(path, 'w').close()
CreateFileAt(f, path) ==
    LET made == MakeDirs(f, DirnameComponents(path))
    IN IF made.ok THEN OpenWrite(made.fs, Components(path)) ELSE made

\* os.makedirs(path) without exist_ok: an existing directory is an error
CreateDirAtStrict(f, path) ==
    IF Target(path) \in f.dirs THEN [ok |-> FALSE, fs |-> f]
    ELSE MakeDirs(f, Components(path))

\* line 212: os.makedirs(path, exist_ok=True)
CreateDirAt(f, path) == MakeDirs(f, Components(path))

----------------------------------------------------------------------------
(* create_directory_structure *)

\* the output directory of the host
BasePath == <<"/", "o">>
BaseObj == Target(BasePath)

\* the output directory exists (create_structure sees to it), empty or
\* holding a non-empty file a and a directory b with a non-empty file a
BaseOnlyFs == [dirs |-> {<<>>, BaseObj}, files |-> {}, nonempty |-> {}]
OccupiedFs ==
    [dirs |-> {<<>>, BaseObj, Append(BaseObj, <<"b">>)},
     files |-> {Append(BaseObj, <<"a">>), BaseObj \o <<<<"b">>, <<"a">>>>},
     nonempty |-> {Append(BaseObj, <<"a">>), BaseObj \o <<<<"b">>, <<"a">>>>}]
StartFs == {BaseOnlyFs, OccupiedFs}

\* the frame of a call create_directory_structure(base_path, structure, cb):
\* structure is the dict at key path dict of the parsed tree, idx the next
\* item of its loop
NewFrame(path, dict, t) ==
    [base_path |-> path, dict |-> dict, idx |-> 1, items_created |-> 0,
     total_items |-> CountItemsAt(t, dict)]

Top == frames[Len(frames)]
TopItems == Items(result, Top.dict)
TopName == TopItems[Top.idx]
TopEntry == Append(Top.dict, TopName)
TopPath == PathJoin(Top.base_path, TopName)

\* update_callback(status, items_created / total_items * 100)
Callback(kind) ==
    [kind |-> kind, path |-> TopPath, entry |-> TopEntry,
     items_created |-> Top.items_created, total_items |-> Top.total_items]

SetTop(f) == [frames EXCEPT ![Len(frames)] = f]

\* Raise with callers that catch the exception and go on with their loop
RaiseCaught(kind) ==
    /\ pc' = IF Len(frames) = 1 THEN "create_error" ELSE "creating"
    /\ error' = [type |-> "RuntimeError", kind |-> kind, path |-> TopPath,
                 entry |-> TopEntry]
    /\ frames' = DropLast(frames)
    /\ UNCHANGED created

\* the exception leaves every frame: each caller's except clause raises again
Raise(kind) ==
    /\ pc' = "create_error"
    /\ error' = [type |-> "RuntimeError", kind |-> kind, path |-> TopPath,
                 entry |-> TopEntry]
    /\ frames' = <<>>
    /\ UNCHANGED created

----------------------------------------------------------------------------
(* Inputs *)

Spaces(k) == [j \in 1..k |-> " "]

\* what an indented line says after its indentation
IndentedEntries == {<<"a", "/">>, <<"a">>, <<"b", "/">>}

\* a comment directory, a comment with a separator in it, the names that
\* validation refuses, a dot-dot directory, a blank line
IndentedSpecials ==
    {<<" ", "#", "c", "/">>, <<"#", "/", "c">>, <<"a", "/", "b">>, <<"/">>,
     <<"a", "\\">>, <<".", ".", "/">>, <<" ">>}

IndentedLines ==
    {Spaces(k) \o e : k \in 0..MaxIndent, e \in IndentedEntries} \cup IndentedSpecials

IndentedTexts ==
    {Join(ls, NL) : ls \in UNION {[1..n -> IndentedLines] : n \in 1..MaxLines}}

\* connector prefixes as the tree command draws them, one and two levels deep
Conn(c) == <<c, BoxH, BoxH, " ">>
Seg(c) == <<c, " ", " ", " ">>
AsciiPrefixes ==
    {Conn(BoxT), Conn(BoxL), Seg(BoxV) \o Conn(BoxL), Seg(" ") \o Conn(BoxT)}

AsciiEntries == {<<"a", "/">>, <<"a">>, <<"b", "/">>}

\* a comment-only entry, an entry with a trailing comment, names with a path
\* separator, a one-fill connector, a line without connector, a blank line
AsciiSpecials ==
    {Conn(BoxT) \o <<"#", " ", "c">>,
     Conn(BoxT) \o <<"b", " ", "#", "c">>,
     Conn(BoxT) \o <<"a", "/", "b">>,
     Conn(BoxL) \o <<"/", "b">>,
     <<BoxT, BoxH, " ", "b">>,
     <<"b">>,
     <<" ">>}

AsciiLines == {pre \o e : pre \in AsciiPrefixes, e \in AsciiEntries} \cup AsciiSpecials

AsciiRoots == {<<"p", "/">>, <<"p">>}

AsciiTexts ==
    {Join(<<r>> \o ls, NL) :
        r \in AsciiRoots,
        ls \in UNION {[1..n -> AsciiLines] : n \in 1..(MaxLines - 1)}}

Texts == IndentedTexts \cup AsciiTexts

----------------------------------------------------------------------------
(* The pipeline *)

\* before the materializer runs the filesystem is not looked at
EmptyFs == [dirs |-> {<<>>}, files |-> {}, nonempty |-> {}]

Init ==
    /\ tree_text \in Texts
    /\ pc = "input"
    /\ format = "none"
    /\ lines = <<>>
    /\ i = 0
    /\ root = <<>>
    /\ structure = <<>>
    /\ root_name = <<>>
    /\ path_stack = <<>>
    /\ indent_stack = <<>>
    /\ result = NoTree
    /\ error = NoError
    /\ fs = EmptyFs
    /\ frames = <<>>
    /\ created = <<>>
    /\ progress = <<>>
    /\ run = 0
    /\ fs0 = EmptyFs
    /\ snap = EmptyFs

\* a parser has returned: its locals are no more
ParserGone ==
    /\ lines' = <<>>
    /\ i' = 0
    /\ root' = <<>>
    /\ structure' = <<>>
    /\ root_name' = <<>>
    /\ path_stack' = <<>>
    /\ indent_stack' = <<>>

\* create_structure up to the call of a parser: an empty text is refused,
\* detect_format_and_parse picks the parser, which sets up its locals
StartParse ==
    /\ pc = "input"
    /\ IF Strip(tree_text) = <<>>
       THEN /\ pc' = "rejected"
            /\ UNCHANGED <<format, parserVars>>
       ELSE IF IsAsciiTree(tree_text)
       THEN LET ls == Split(Strip(tree_text), NL)
            IN /\ pc' = "ascii"
               /\ format' = "ASCII tree"
               /\ lines' = WithRoot(ls)
               /\ i' = 2
               /\ root_name' = RootName(ls)
               /\ structure' = <<[path |-> <<RootName(ls)>>, dir |-> TRUE]>>
               /\ path_stack' = <<RootName(ls)>>
               /\ UNCHANGED <<root, indent_stack>>
       ELSE /\ pc' = "indented"
            /\ format' = "Indented"
            /\ lines' = Split(Strip(tree_text), NL)
            /\ i' = 1
            /\ root' = <<>>
            /\ path_stack' = <<>>
            /\ indent_stack' = <<-1>>
            /\ UNCHANGED <<structure, root_name>>
    /\ UNCHANGED <<tree_text, result, error, createVars>>

\* parse_indented_tree: one iteration of the loop over lines
ParseIndentedLine ==
    /\ pc = "indented"
    /\ i <= Len(lines)
    /\ IF Strip(lines[i]) = <<>>
       THEN /\ i' = i + 1
            /\ UNCHANGED <<pc, root, path_stack, indent_stack, error>>
       ELSE LET r == IndentedLine(lines[i], root, path_stack, indent_stack)
            IN /\ root' = r.root
               /\ path_stack' = r.path_stack
               /\ indent_stack' = r.indent_stack
               /\ IF r.status = "ok"
                  THEN /\ i' = i + 1
                       /\ UNCHANGED <<pc, error>>
                  ELSE /\ pc' = "parse_error"
                       /\ error' = [type |-> r.status, name |-> r.name]
                       /\ UNCHANGED i
    /\ UNCHANGED <<tree_text, format, lines, structure, root_name, result, createVars>>

\* parse_indented_tree: return root
ReturnIndented ==
    /\ pc = "indented"
    /\ i > Len(lines)
    /\ result' = root
    /\ pc' = "parsed"
    /\ ParserGone
    /\ UNCHANGED <<tree_text, format, error, createVars>>

\* parse_ascii_tree: one iteration of the loop over lines[1:]
ParseAsciiLine ==
    /\ pc = "ascii"
    /\ i <= Len(lines)
    /\ IF Strip(lines[i]) = <<>>
       THEN /\ i' = i + 1
            /\ UNCHANGED <<pc, structure, path_stack, error>>
       ELSE LET r == AsciiLine(lines[i], structure, path_stack)
            IN /\ structure' = r.structure
               /\ path_stack' = r.path_stack
               /\ IF r.status = "ok"
                  THEN /\ i' = i + 1
                       /\ UNCHANGED <<pc, error>>
                  ELSE /\ pc' = "parse_error"
                       /\ error' = [type |-> r.status, name |-> r.name]
                       /\ UNCHANGED i
    /\ UNCHANGED <<tree_text, format, lines, root, root_name, indent_stack,
                   result, createVars>>

\* parse_ascii_tree: return structure[root_name] if root_name in structure else {}
ReturnAscii ==
    /\ pc = "ascii"
    /\ i > Len(lines)
    /\ result' = IF HasKey(structure, <<root_name>>)
                 THEN SubDict(structure, <<root_name>>) ELSE <<>>
    /\ pc' = "parsed"
    /\ ParserGone
    /\ UNCHANGED <<tree_text, format, error, createVars>>

\* create_structure calls create_directory_structure(output_path, structure,
\* self.update_progress) on the parsed tree; the text is not used again
StartCreate ==
    /\ pc = "parsed"
    /\ pc' = "creating"
    /\ run' = 1
    /\ fs' \in StartFs
    /\ fs0' = fs'
    /\ frames' = <<NewFrame(BasePath, <<>>, result)>>
    /\ created' = <<>>
    /\ progress' = <<>>
    /\ tree_text' = <<>>
    /\ UNCHANGED <<format, parserVars, result, error, snap>>

\* the host calls create_directory_structure again, same base and tree
CreateAgain ==
    /\ pc = "done"
    /\ run = 1
    /\ pc' = "creating"
    /\ run' = 2
    /\ snap' = fs
    /\ fs0' = fs
    /\ frames' = <<NewFrame(BasePath, <<>>, result)>>
    /\ created' = <<>>
    /\ progress' = <<>>
    /\ UNCHANGED <<tree_text, format, parserVars, result, error, fs>>

\* lines 188-189: a comment entry is passed over
SkipComment ==
    /\ pc = "creating"
    /\ Top.idx <= Len(TopItems)
    /\ IsComment(TopName)
    /\ frames' = SetTop([Top EXCEPT !.idx = @ + 1])
    /\ UNCHANGED <<tree_text, pc, format, parserVars, result, error, fs,
                   created, progress, run, fs0, snap>>

\* lines 193-205: a file entry
CreateFile ==
    /\ pc = "creating"
    /\ Top.idx <= Len(TopItems)
    /\ ~IsComment(TopName)
    /\ IsFileAt(result, TopEntry)
    /\ progress' = Append(progress, Callback("file"))
    /\ LET r == CreateFileAt(fs, TopPath)
       IN /\ fs' = r.fs
          /\ IF r.ok
             THEN /\ frames' = SetTop([Top EXCEPT !.idx = @ + 1, !.items_created = @ + 1])
                  /\ created' = Append(created,
                         [entry |-> TopEntry, path |-> TopPath, dir |-> FALSE])
                  /\ UNCHANGED <<pc, error>>
             ELSE Raise("file")
    /\ UNCHANGED <<tree_text, format, parserVars, result, run, fs0, snap>>

\* lines 206-217: a directory entry; the recursive call is a new frame
CreateDir ==
    /\ pc = "creating"
    /\ Top.idx <= Len(TopItems)
    /\ ~IsComment(TopName)
    /\ ~IsFileAt(result, TopEntry)
    /\ progress' = Append(progress, Callback("directory"))
    /\ LET r == CreateDirAt(fs, TopPath)
       IN /\ fs' = r.fs
          /\ IF r.ok
             THEN /\ frames' = Append(
                         SetTop([Top EXCEPT !.idx = @ + 1, !.items_created = @ + 1]),
                         NewFrame(TopPath, TopEntry, result))
                  /\ created' = Append(created,
                         [entry |-> TopEntry, path |-> TopPath, dir |-> TRUE])
                  /\ UNCHANGED <<pc, error>>
             ELSE Raise("directory")
    /\ UNCHANGED <<tree_text, format, parserVars, result, run, fs0, snap>>

\* the loop over structure.items() ends and the call returns
ReturnCreate ==
    /\ pc = "creating"
    /\ Top.idx > Len(TopItems)
    /\ frames' = DropLast(frames)
    /\ pc' = IF Len(frames) = 1 THEN "done" ELSE "creating"
    /\ UNCHANGED <<tree_text, format, parserVars, result, error, fs,
                   created, progress, run, fs0, snap>>

Next ==
    \/ StartParse
    \/ ParseIndentedLine
    \/ ReturnIndented
    \/ ParseAsciiLine
    \/ ReturnAscii
    \/ StartCreate
    \/ CreateAgain
    \/ SkipComment
    \/ CreateFile
    \/ CreateDir
    \/ ReturnCreate

Spec == Init /\ [][Next]_vars

----------------------------------------------------------------------------
(* Properties *)

Entries(t) == {t[k] : k \in 1..Len(t)}

NonBlank(line) == Strip(line) # <<>>

\* the non-blank lines of a text as it was entered
InputLines(text) == SelectSeq(Split(text, NL), NonBlank)

\* the elements of a set of numbers, ascending
RECURSIVE Ascending(_)
Ascending(S) ==
    IF S = {} THEN <<>>
    ELSE LET m == CHOOSE x \in S : \A y \in S : x <= y
         IN <<m>> \o Ascending(S \ {m})

(* ---- C1 ---- *)

\* a line drawn as the tree command draws an entry: segments of four
\* characters, a connector of four characters, a plain name
IsSegment(s) == s = Seg(BoxV) \/ s = Seg(" ")
IsConnector(s) == s = Conn(BoxT) \/ s = Conn(BoxL)
PlainName(s) ==
    /\ s # <<>>
    /\ \A k \in 1..Len(s) : s[k] \notin (Whitespace \cup Branch \cup {BoxH, "#", "/", "\\"})
Block(line, j) == SubSeq(line, 4 * j - 3, 4 * j)
HasConnector(line) == \E j \in 1..(Len(line) \div 4) : IsConnector(Block(line, j))
\* the nesting level: the connector is the k-th block of four characters
DrawnLevel(line) ==
    CHOOSE j \in 1..(Len(line) \div 4) :
        IsConnector(Block(line, j)) /\ \A m \in 1..(j - 1) : ~IsConnector(Block(line, m))
DrawnRest(line) == SubSeq(line, 4 * DrawnLevel(line) + 1, Len(line))
DrawnIsDir(line) == EndsWith(DrawnRest(line), "/")
DrawnName(line) == IF DrawnIsDir(line) THEN DropLast(DrawnRest(line)) ELSE DrawnRest(line)
IsDrawnEntry(line) ==
    /\ HasConnector(line)
    /\ \A j \in 1..(DrawnLevel(line) - 1) : IsSegment(Block(line, j))
    /\ PlainName(DrawnName(line))

\* the nearest preceding directory line one level up; 1 is the root line
DrawnParent(ls, j) ==
    IF DrawnLevel(ls[j]) = 1 THEN 1
    ELSE LET S == {k \in 2..(j - 1) :
                     DrawnLevel(ls[k]) = DrawnLevel(ls[j]) - 1 /\ DrawnIsDir(ls[k])}
         IN IF S = {} THEN 0 ELSE CHOOSE k \in S : \A m \in S : m <= k

\* a root line ending in '/', then entries, each below a directory line
IsDrawnTree(ls) ==
    /\ Len(ls) >= 2
    /\ EndsWith(ls[1], "/") /\ PlainName(DropLast(ls[1]))
    /\ \A j \in 2..Len(ls) :
          /\ IsDrawnEntry(ls[j])
          /\ DrawnParent(ls, j) # 0
          /\ DrawnLevel(ls[j]) <= (IF j = 2 THEN 0 ELSE DrawnLevel(ls[j - 1])) + 1
          /\ j > 2 /\ DrawnLevel(ls[j]) > DrawnLevel(ls[j - 1]) => DrawnIsDir(ls[j - 1])

\* the keys from the root's dict to line j
RECURSIVE DrawnPath(_, _)
DrawnPath(ls, j) ==
    IF j = 1 THEN <<>> ELSE Append(DrawnPath(ls, DrawnParent(ls, j)), DrawnName(ls[j]))

\* the tree in which every line is a child of its drawn parent
RECURSIVE DrawnTree(_, _)
DrawnTree(ls, j) ==
    IF j = 1 THEN <<>>
    ELSE SetItem(DrawnTree(ls, j - 1), DrawnPath(ls, DrawnParent(ls, j)),
                 DrawnName(ls[j]), DrawnIsDir(ls[j]))

\* C1: for ASCII-tree input laid out as the tree command renders it,
\* parse_ascii_tree makes every entry a child of the nearest preceding
\* directory line one nesting level up (the root for level 1); directory
\* lines at the same level under the same parent become siblings.
C1_AsciiNesting ==
    (pc = "parsed" /\ format = "ASCII tree" /\ IsDrawnTree(InputLines(tree_text)))
        => Entries(result) =
             Entries(DrawnTree(InputLines(tree_text), Len(InputLines(tree_text))))

(* ---- C2 ---- *)

\* the directory lines still open at line j: before it, less indented, and
\* not followed before j by a line indented as little as they are
OpenAt(ls, j) ==
    {d \in 1..(j - 1) :
        /\ LineIsDir(ls[d])
        /\ LineIndent(ls[d]) < LineIndent(ls[j])
        /\ \A m \in (d + 1)..(j - 1) : LineIndent(ls[m]) > LineIndent(ls[d])}

OpenPath(ls, j) ==
    LET open == Ascending(OpenAt(ls, j))
    IN [k \in 1..Len(open) |-> LineName(ls[open[k]])]

\* every line inserted under its open directories, in input order
RECURSIVE NestedByIndent(_, _)
NestedByIndent(ls, j) ==
    IF j = 0 THEN <<>>
    ELSE SetItem(NestedByIndent(ls, j - 1), OpenPath(ls, j),
                 LineName(ls[j]), LineIsDir(ls[j]))

FirstLineUnindented(text) ==
    InputLines(text) # <<>> /\ LineIndent(InputLines(text)[1]) = 0

\* C2: for indented input with valid names whose first non-blank line has
\* no leading whitespace, parse_indented_tree inserts every non-blank line
\* under the path of the directories still open at it, so the tree returned
\* nests exactly as the input is indented.
C2_IndentedNesting ==
    (pc = "parsed" /\ format = "Indented" /\ FirstLineUnindented(tree_text))
        => result = NestedByIndent(InputLines(tree_text), Len(InputLines(tree_text)))

\* a parse that nested two levels deep and came back to the top level
C2_Witness ==
    /\ pc = "parsed" /\ format = "Indented" /\ FirstLineUnindented(tree_text)
    /\ Len(result) = 3
    /\ Len(result[2].path) = 2
    /\ Len(result[3].path) = 1

(* ---- C3 ---- *)

Objects(f) == f.dirs \cup f.files

\* what the running call has put on the filesystem
NewObjects == Objects(fs) \ Objects(fs0)

\* C3: every directory and file that create_directory_structure creates
\* lies strictly inside the base path: it is not the base, not an ancestor
\* of it, and nothing outside its subtree.
C3_InsideBase == \A obj \in NewObjects : IsStrictPrefix(BaseObj, obj)

(* ---- C4 ---- *)

InComment(path) == \E k \in 1..Len(path) : IsComment(path[k])

\* the entries outside every comment entry's subtree
Materialized(t) == {e \in Entries(t) : ~InComment(e.path)}

\* the objects below the base, by the names leading to them from the base
Below(S) ==
    {SubSeq(obj, Len(BaseObj) + 1, Len(obj)) : obj \in {x \in S : IsStrictPrefix(BaseObj, x)}}

\* C4: for a tree parsed from valid indented input, a successful
\* create_directory_structure on an empty base leaves under the base exactly
\* the tree without its comment entries and their subtrees: directories
\* for Directory nodes, empty files for File nodes, and nothing else.
C4_RoundTrip ==
    (pc = "done" /\ run = 1 /\ format = "Indented" /\ fs0 = BaseOnlyFs)
        => /\ Below(fs.dirs) = {e.path : e \in {x \in Materialized(result) : x.dir}}
           /\ Below(fs.files) = {e.path : e \in {x \in Materialized(result) : ~x.dir}}
           /\ Below(fs.nonempty) = {}

(* ---- C5 ---- *)

\* C5: when create_directory_structure has succeeded once, the second call
\* with the same base and tree succeeds too and leaves the filesystem as
\* the first call left it, every file of the tree empty.
C5_Idempotent ==
    run = 2 =>
        /\ pc # "create_error"
        /\ fs = snap
        /\ \A k \in 1..Len(created) :
              ~created[k].dir =>
                  /\ Target(created[k].path) \in fs.files
                  /\ Target(created[k].path) \notin fs.nonempty

\* a second call that went through a directory and a file
C5_Witness ==
    /\ pc = "done" /\ run = 2
    /\ \E k \in 1..Len(created) : created[k].dir
    /\ \E k \in 1..Len(created) : ~created[k].dir

(* ---- C6 ---- *)

\* C6: an entry whose name starts with '#', and every entry below it,
\* adds nothing to count_items and puts nothing on the filesystem, at any
\* depth; a successful run creates count_items(tree) entries.
C6_CommentsSkipped ==
    /\ pc \in {"parsed", "creating", "done", "create_error"}
          => count_items(result) = Cardinality(Materialized(result))
    /\ \A k \in 1..Len(created) : ~InComment(created[k].entry)
    /\ \A obj \in NewObjects : ~InComment(obj)
    /\ pc = "done" => Len(created) = count_items(result)

\* a finished run over a tree with an entry below a comment directory
C6_Witness ==
    /\ pc = "done"
    /\ Len(created) >= 1
    /\ \E e \in Entries(result) :
          Len(e.path) = 2 /\ IsComment(e.path[1]) /\ ~IsComment(e.path[2])

(* ---- C7 ---- *)

\* an entry line with nothing but a comment after the connector
CommentOnly(line) ==
    /\ HasConnector(line)
    /\ StartsWith(Strip(DrawnRest(line)), "#")

\* C7: in the ASCII format an entry line that holds only a comment adds
\* nothing to count_items of the parsed tree: the count is at most the
\* number of the other entry lines.
C7_AsciiCommentLine ==
    (pc = "parsed" /\ format = "ASCII tree" /\ EndsWith(InputLines(tree_text)[1], "/"))
        => count_items(result) <=
             Cardinality({j \in 2..Len(InputLines(tree_text)) :
                             ~CommentOnly(InputLines(tree_text)[j])})

(* ---- C8 ---- *)

\* a name the indented format refuses, in the words of the claim
Refused(name) ==
    \/ name = <<>>
    \/ (Contains(name, "/") \/ Contains(name, "\\")) /\ ~StartsWith(name, "#")

StrippedLines(text) == Split(Strip(text), NL)

\* C8: parse_indented_tree fails, with the offending name in the error and
\* no tree returned, exactly when a non-blank line yields an empty name or a
\* name with '/' or '\' that does not start with '#'.
C8_IndentedValidation ==
    /\ (pc = "parse_error" /\ format = "Indented")
          => /\ error.type = "ValueError"
             /\ NonBlank(lines[i])
             /\ error.name = LineName(lines[i])
             /\ Refused(error.name)
             /\ \A j \in 1..(i - 1) : NonBlank(lines[j]) => ~Refused(LineName(lines[j]))
             /\ result = NoTree
    /\ (pc = "parsed" /\ format = "Indented")
          => \A j \in 1..Len(StrippedLines(tree_text)) :
                NonBlank(StrippedLines(tree_text)[j])
                    => ~Refused(LineName(StrippedLines(tree_text)[j]))

\* a parse that fails on a later line, entries of the earlier lines in hand
C8_Witness ==
    /\ pc = "parse_error" /\ format = "Indented"
    /\ i > 1
    /\ root # <<>>
    /\ Contains(error.name, "\\")

(* ---- C9 ---- *)

\* C9: no entry with an empty name or a name holding a path separator is
\* in a tree returned by parse_ascii_tree.
C9_AsciiValidation ==
    (pc = "parsed" /\ format = "ASCII tree")
        => \A e \in Entries(result) : \A k \in 1..Len(e.path) :
              /\ e.path[k] # <<>>
              /\ ~Contains(e.path[k], "/")
              /\ ~Contains(e.path[k], "\\")

(* ---- C10 ---- *)

\* the entries in the order create_directory_structure comes to them:
\* pre-order, children in dict order, comment entries passed over
RECURSIVE PreOrderAt(_, _), PreOrderLoop(_, _, _)
PreOrderAt(t, p) == PreOrderLoop(t, p, 1)
PreOrderLoop(t, p, k) ==
    IF k > Len(Items(t, p)) THEN <<>>
    ELSE LET q == Append(p, Items(t, p)[k])
         IN IF IsComment(Items(t, p)[k]) THEN PreOrderLoop(t, p, k + 1)
            ELSE <<q>> \o (IF IsDirAt(t, q) THEN PreOrderAt(t, q) ELSE <<>>)
                     \o PreOrderLoop(t, p, k + 1)

Exists(c) ==
    IF c.dir THEN Target(c.path) \in fs.dirs ELSE Target(c.path) \in fs.files

\* C10: when the creation of an entry fails the call ends with an error,
\* the entries created are exactly those before the failing one in
\* traversal order, and each of them still exists.
C10_FailFast ==
    /\ error.type = "RuntimeError"
          => /\ pc = "create_error"
             /\ frames = <<>>
    /\ pc = "create_error"
          => LET order == PreOrderAt(result, <<>>)
             IN /\ Len(created) < Len(order)
                /\ \A k \in 1..Len(created) : created[k].entry = order[k]
                /\ error.entry = order[Len(created) + 1]
                /\ \A k \in 1..Len(created) : Exists(created[k])

\* a failure two levels deep, an entry created before it and one left
C10_Witness ==
    /\ pc = "create_error"
    /\ Len(error.entry) = 2
    /\ Len(created) >= 1
    /\ Len(PreOrderAt(result, <<>>)) > Len(created) + 1

(* ---- C11 ---- *)

\* the percentage of the k-th callback, items_created / total_items * 100,
\* kept as the fraction it is computed from; fractions are compared by
\* cross-multiplication, their denominators being positive
Reported(k) == [num |-> progress[k].items_created, den |-> progress[k].total_items]

FracEq(x, y) == x.num * y.den = y.num * x.den
FracLeq(x, y) == x.num * y.den <= y.num * x.den

\* the k-th callback of a run stands for the k-th entry created in it, so
\* the share of the whole tree created so far is k out of count_items
OfWholeRun(k) == [num |-> k, den |-> count_items(result)]

\* C11: every callback of a run, at every nesting level, reports 100 times
\* the number of entries created so far in the whole run over count_items
\* of the whole tree; so the percentages of a run never decrease and the
\* last one of a successful run is 100.
C11_ProgressPercentage ==
    pc \in {"creating", "done", "create_error"}
        => /\ \A k \in 1..Len(progress) : FracEq(Reported(k), OfWholeRun(k))
           /\ \A k \in 1..(Len(progress) - 1) : FracLeq(Reported(k), Reported(k + 1))
           /\ (pc = "done" /\ progress # <<>>)
                 => FracEq(Reported(Len(progress)), [num |-> 1, den |-> 1])

(* ---- C12 ---- *)

\* the entries for which the callback was invoked, in the order of the calls
Reports == [k \in 1..Len(progress) |-> progress[k].entry]

\* the entries created, in the order of their creation
Creations == [k \in 1..Len(created) |-> created[k].entry]

\* C12: the callback is invoked for an entry only once the entry has been
\* created, exactly once for each created entry, and never for an entry
\* whose creation fails: at every moment of a run the entries reported are
\* the entries created, in the same order.
C12_CallbackAfterCreation ==
    pc \in {"creating", "done", "create_error"} => Reports = Creations

(* ---- C13 ---- *)

\* C13: in the indented format the level of every non-blank line, the
\* first one included, is the length of its leading whitespace in the
\* input, so the tree returned nests as the input lines are indented; lines
\* that all carry the same indentation are siblings at top level.
C13_LeadingWhitespace ==
    (pc = "parsed" /\ format = "Indented")
        => result = NestedByIndent(InputLines(tree_text), Len(InputLines(tree_text)))

(* ---- C14 ---- *)

\* the names on the stack lead from the top of tree t through Directory
\* nodes, each the child of the one before
DirChain(t, pstack) == \A k \in 1..Len(pstack) : IsDirAt(t, SubSeq(pstack, 1, k))

StrictlyIncreasing(s) == \A k \in 1..(Len(s) - 1) : s[k] < s[k + 1]

\* a line is about to go through the stack adjustment and the navigation
PendingIndented ==
    /\ pc = "indented" /\ i <= Len(lines)
    /\ NonBlank(lines[i]) /\ ~InvalidName(LineName(lines[i]))
PendingAscii == pc = "ascii" /\ i <= Len(lines) /\ NonBlank(lines[i])

\* C14: after any number of lines the path stack of either parser names a
\* chain of existing Directory nodes from the top of the structure; in
\* parse_indented_tree the indentation stack is one longer than the path
\* stack, has -1 at its bottom and increases strictly.  So for the next
\* line the pop loop empties no stack, the navigation to the parent does
\* not fail and creates no missing segment, and the only error a parser
\* raises is the ValueError of the name validation.
C14_PathStackInvariant ==
    /\ pc = "indented"
          => /\ DirChain(root, path_stack)
             /\ Len(indent_stack) = Len(path_stack) + 1
             /\ indent_stack[1] = -1
             /\ StrictlyIncreasing(indent_stack)
    /\ PendingIndented
          => LET popped == PopIndent(LineIndent(lines[i]), indent_stack, path_stack)
                 nav == NavigateIndented(root, popped.path_stack, 0)
             IN /\ popped.ok
                /\ popped.indent_stack # <<>>
                /\ nav.ok
                /\ ~nav.made
    /\ pc = "ascii"
          => /\ path_stack # <<>>
             /\ DirChain(structure, path_stack)
    /\ PendingAscii
          => LET stack == TruncateStack(path_stack, LineDepth(lines[i]))
             IN /\ stack # <<>>
                /\ NavigateAscii(structure, stack, 0) = "ok"
    /\ pc = "parse_error"
          => /\ format = "Indented"
             /\ error.type = "ValueError"

\* three lines in: the second directory was popped for the third, which
\* lies on the stack below the first
C14_Witness ==
    /\ pc = "indented" /\ i = 4
    /\ Len(path_stack) = 2
    /\ LineIsDir(lines[2]) /\ LineIndent(lines[2]) = LineIndent(lines[3])
    /\ path_stack[2] = LineName(lines[3])
    /\ path_stack[2] # LineName(lines[2])

====
